---------------------------- MODULE Spec2Model ----------------------------
(***************************************************************************)
(* The comment categoriser of src/index.tsx as a state machine: the App    *)
(* component's state, its event handlers, the suspended continuations of   *)
(* its asynchronous handlers, and the pure helpers they call.              *)
(*                                                                         *)
(* A JavaScript string is a sequence of one-character strings, so that     *)
(* split, trim, toLowerCase, includes, replace and join are computed on    *)
(* characters as the code computes them.                                   *)
(***************************************************************************)
EXTENDS Integers, Sequences, FiniteSets, TLC

VARIABLES
    activeTab,       \* useState 'single' | 'batch'
    singleInput,     \* the textarea's text
    singleResult,    \* null, or the result shown in the single pane
    singleLoading,   \* busy flag of the single pane
    batchData,       \* the held result set
    batchLoading,    \* busy flag of the batch pane
    filterCategory,  \* the selector of the results table
    stats,           \* the category counts of the bar chart
    pickerOpen,      \* the browser's file chooser is open
    singleTasks,     \* suspended handleSingleAnalyze calls (awaiting the service)
    batchTasks,      \* suspended batch submissions (a file read or the service)
    alerted,         \* the alert raised by the last step, or NoAlert
    downloaded,      \* the file content downloaded by the last step, or NoDownload
    lastEvent        \* the handler or callback that ran last, and its outcome

vars == <<activeTab, singleInput, singleResult, singleLoading, batchData,
          batchLoading, filterCategory, stats, pickerOpen, singleTasks,
          batchTasks, alerted, downloaded, lastEvent>>

appState == <<activeTab, singleInput, singleResult, singleLoading, batchData,
              batchLoading, filterCategory, stats>>

---------------------------------------------------------------------------
(* Strings *)

WhiteSpace == {" ", "\t", "\n", "\r"}

UpperCase == <<"A","B","C","D","E","F","G","H","I","J","K","L","M",
               "N","O","P","Q","R","S","T","U","V","W","X","Y","Z">>

LowerCase == <<"a","b","c","d","e","f","g","h","i","j","k","l","m",
               "n","o","p","q","r","s","t","u","v","w","x","y","z">>

\* String.prototype.toLowerCase, on the letters A-Z
toLowerCase(s) ==
    [i \in 1..Len(s) |->
        IF \E k \in 1..Len(UpperCase) : UpperCase[k] = s[i]
        THEN LowerCase[CHOOSE k \in 1..Len(UpperCase) : UpperCase[k] = s[i]]
        ELSE s[i]]

\* String.prototype.includes
includes(s, p) ==
    \E i \in 1..(Len(s) - Len(p) + 1) : SubSeq(s, i, i + Len(p) - 1) = p

\* String.prototype.trim
trim(s) ==
    LET ink == {i \in 1..Len(s) : s[i] \notin WhiteSpace}
    IN  IF ink = {} THEN <<>>
        ELSE SubSeq(s, CHOOSE i \in ink : \A j \in ink : i <= j,
                       CHOOSE i \in ink : \A j \in ink : j <= i)

---------------------------------------------------------------------------
(* Configuration *)

\* Object.keys(CATEGORY_DEFINITIONS), in insertion order
CATEGORIES == <<
    <<"p","r","a","i","s","e">>,
    <<"s","u","p","p","o","r","t">>,
    <<"c","o","n","s","t","r","u","c","t","i","v","e","_","c","r","i","t","i","c","i","s","m">>,
    <<"h","a","t","e","_","a","b","u","s","e">>,
    <<"t","h","r","e","a","t">>,
    <<"e","m","o","t","i","o","n","a","l">>,
    <<"s","p","a","m","_","i","r","r","e","l","e","v","a","n","t">>,
    <<"q","u","e","s","t","i","o","n","_","s","u","g","g","e","s","t","i","o","n">> >>

SAMPLE_COMMENTS == <<
    <<"T","h","i","s"," ","v","i","d","e","o"," ","c","h","a","n","g","e","d"," ","m","y"," ","l","i","f","e",","," ","t","h","a","n","k"," ","y","o","u"," ","s","o"," ","m","u","c","h","!">>,
    <<"K","e","e","p"," ","g","o","i","n","g",","," ","y","o","u","'","r","e"," ","d","o","i","n","g"," ","g","r","e","a","t","!">>,
    <<"T","h","e"," ","a","n","i","m","a","t","i","o","n"," ","w","a","s"," ","o","k","a","y"," ","b","u","t"," ","t","h","e"," ","v","o","i","c","e","o","v","e","r"," ","f","e","l","t"," ","o","f","f",".">>,
    <<"I"," ","d","i","d","n","'","t"," ","l","i","k","e"," ","t","h","e"," ","c","o","l","o","r"," ","s","c","h","e","m","e",","," ","i","t"," ","h","u","r","t","s"," ","m","y"," ","e","y","e","s",".">>,
    <<"Y","o","u"," ","a","r","e"," ","g","a","r","b","a","g","e"," ","a","n","d"," ","n","o","b","o","d","y"," ","l","i","k","e","s"," ","y","o","u",".">>,
    <<"T","h","i","s"," ","i","s"," ","t","h","e"," ","w","o","r","s","t"," ","a","p","p"," ","e","v","e","r",","," ","d","e","l","e","t","e"," ","y","o","u","r"," ","c","h","a","n","n","e","l",".">>,
    <<"I"," ","w","i","l","l"," ","f","i","n","d"," ","y","o","u"," ","a","n","d"," ","m","a","k","e"," ","y","o","u"," ","p","a","y",".">>,
    <<"T","h","i","s"," ","r","e","m","i","n","d","s"," ","m","e"," ","o","f"," ","w","h","e","n"," ","I"," ","w","a","s"," ","a"," ","k","i","d",","," ","g","o","o","d"," ","t","i","m","e","s",".">>,
    <<"F","o","l","l","o","w"," ","m","e"," ","f","o","r"," ","f","r","e","e"," ","i","p","h","o","n","e",".">>,
    <<"C","a","n"," ","y","o","u"," ","m","a","k","e"," ","a"," ","v","i","d","e","o"," ","a","b","o","u","t"," ","P","y","t","h","o","n"," ","b","a","s","i","c","s","?">>,
    <<"G","r","e","a","t"," ","c","o","n","t","e","n","t"," ","b","u","t"," ","t","h","e"," ","l","i","g","h","t","i","n","g"," ","i","s"," ","a"," ","b","i","t"," ","d","a","r","k",".">>,
    <<"I"," ","l","o","v","e"," ","t","h","i","s","!"," ","W","h","e","n"," ","i","s"," ","t","h","e"," ","n","e","x","t"," ","p","a","r","t","?">>,
    <<"U","s","e","l","e","s","s"," ","v","i","d","e","o",","," ","w","a","s","t","e"," ","o","f"," ","t","i","m","e",".">>,
    <<"M","y"," ","o","r","d","e","r"," ","h","a","s","n","'","t"," ","a","r","r","i","v","e","d",","," ","p","l","e","a","s","e"," ","h","e","l","p",".">>,
    <<"C","h","e","c","k"," ","o","u","t"," ","m","y"," ","p","r","o","f","i","l","e"," ","f","o","r"," ","e","a","s","y"," ","m","o","n","e","y",".">> >>

---------------------------------------------------------------------------
(* Bounds of the model *)

\* longest array the classification service answers with
MaxResults == 2

\* number of comment lines of the long upload (more than the cap of 200)
LongLines == 201

\* most suspended submissions of one pane the model keeps
MaxTasks == 2

\* most lines of the small files whose ingestion is checked exhaustively
MaxFileLines == 2

\* longest array the service answers with where the results table is studied
MaxTableLen == 3

---------------------------------------------------------------------------
(* The classification service and its client *)

Null == [null |-> TRUE]

\* the ClassificationResult objects the service answers with: one of a
\* registered category, its texts with a comma and double quotes, and one of
\* a category that is not registered
Results == {
    [original_text |-> <<"a",",","\"">>, category |-> CATEGORIES[5],
     reply |-> <<"\"","!","\"">>],
    [original_text |-> <<"b">>, category |-> <<"o","\"","d">>, reply |-> <<>>] }

ResultArrays == UNION {[1..n -> Results] : n \in 0..MaxResults}

\* what one call of ai.models.generateContent comes to: it rejects, or it
\* resolves to a response whose text is missing, is no JSON, or is a JSON
\* array of result objects
Responses ==
    {[kind |-> k, body |-> <<>>] : k \in {"rejected", "no text", "not json"}}
    \cup {[kind |-> "array", body |-> a] : a \in ResultArrays}

\* processCommentWithGemini given the service's answer: threw is the
\* rejection of the promise it returns, value what the promise resolves to
processCommentWithGemini(resp) ==
    CASE resp.kind = "rejected" -> [threw |-> TRUE, value |-> <<>>]
      [] resp.kind = "no text"  -> [threw |-> FALSE, value |-> <<>>]
      [] resp.kind = "not json" -> [threw |-> TRUE, value |-> <<>>]
      [] OTHER                  -> [threw |-> FALSE, value |-> resp.body]

---------------------------------------------------------------------------
(* Ingestion of an uploaded file *)

\* String.prototype.split(/\r?\n/): the text between line feeds, a carriage
\* return right before a line feed belonging to the separator
split(text) ==
    LET n == Len(text)
        IsStart(i) == i = 1 \/ text[i - 1] = "\n"
        starts == SelectSeq([i \in 1..(n + 1) |-> i], IsStart)
        m == Len(starts)
        Last(k) ==
            IF k = m THEN n
            ELSE IF starts[k + 1] - 2 >= starts[k] /\ text[starts[k + 1] - 2] = "\r"
                 THEN starts[k + 1] - 3
                 ELSE starts[k + 1] - 2
    IN  [k \in 1..m |-> SubSeq(text, starts[k], Last(k))]

NonBlank(line) == trim(line) # <<>>

\* lines 345
lines(text) == SelectSeq(split(text), NonBlank)

\* a header test that knows "comment" only
IsHeader_commentOnly(line) ==
    \E lower \in {toLowerCase(line)} :
        includes(lower, <<"c","o","m","m","e","n","t">>)

\* the second half of the condition of line 347
IsHeader(line) ==
    \E lower \in {toLowerCase(line)} :
        \/ includes(lower, <<"c","o","m","m","e","n","t">>)
        \/ includes(lower, <<"t","e","x","t">>)

\* the one element of a singleton
The(S) == CHOOSE x \in S : TRUE

\* lines 347-349, given lines
withoutHeader(ls) ==
    IF Len(ls) > 0 /\ IsHeader(ls[1]) THEN SubSeq(ls, 2, Len(ls)) ELSE ls

\* lines 345-349
comments(text) == The({withoutHeader(ls) : ls \in {lines(text)}})

\* Array.prototype.slice(0, k)
slice0(s, k) == SubSeq(s, 1, IF Len(s) < k THEN Len(s) ELSE k)

CommentCap == 200

\* an upload that forwards every candidate
limitedComments_uncapped(text) == comments(text)

\* line 352
limitedComments(text) == slice0(comments(text), CommentCap)

---------------------------------------------------------------------------
(* Files the user can pick *)

LF == <<"\n">>
CRLF == <<"\r", "\n">>

Digits == <<"0","1","2","3","4","5","6","7","8","9">>

Numeral(i) ==
    IF i < 10 THEN <<Digits[i + 1]>>
    ELSE IF i < 100 THEN <<Digits[(i \div 10) + 1], Digits[(i % 10) + 1]>>
    ELSE <<Digits[(i \div 100) + 1], Digits[((i \div 10) % 10) + 1], Digits[(i % 10) + 1]>>

Line(content, eol) == [content |-> content, eol |-> eol]

\* a text file is its lines, each with the line ending that follows it (none
\* after a last line that is not terminated)
NumberedLines(n) == [i \in 1..n |-> Line(Numeral(i), LF)]

\* files of more comments than the cap, with a header and with none
LongFiles == {<<Line(<<"T","e","x","t">>, LF)>> \o NumberedLines(LongLines),
              NumberedLines(LongLines)}

\* the files picked in the runs of the whole application
Files == {
    \* a header and nothing else
    <<Line(<<"C","o","m","m","e","n","t">>, LF)>>,
    \* a header, comments, a blank line between them, no final line ending
    <<Line(<<"c","o","m","m","e","n","t">>, CRLF), Line(<<"a">>, CRLF),
      Line(<<>>, CRLF), Line(<<" ","b"," ">>, <<>>)>> }

\* what a line of a small file reads: nothing, white space, a comment, a
\* comment with a carriage return inside, the two kinds of header
LineContents == {<<>>, <<" ", "\t">>, <<"a">>, <<"b", "\r", "c">>,
                 <<"C","o","m","m","e","n","t","s">>, <<"m","y"," ","T","E","X","T">>}

\* every file of at most MaxFileLines lines, the last of them terminated or not
SmallFiles ==
    UNION {{f \in [1..n -> [content : LineContents, eol : {LF, CRLF, <<>>}]] :
                \A i \in 1..(n - 1) : f[i].eol # <<>>} : n \in 0..MaxFileLines}

\* the strings of ss one after the other (by halves, to keep the recursion shallow)
RECURSIVE concat(_)
concat(ss) ==
    IF Len(ss) = 0 THEN <<>>
    ELSE IF Len(ss) = 1 THEN ss[1]
    ELSE LET h == Len(ss) \div 2
         IN  concat(SubSeq(ss, 1, h)) \o concat(SubSeq(ss, h + 1, Len(ss)))

\* FileReader.readAsText: the file's characters
readAsText(file) == concat([i \in 1..Len(file) |-> file[i].content \o file[i].eol])

---------------------------------------------------------------------------
(* Aggregation, filtering, export *)

Range(s) == {s[i] : i \in 1..Len(s)}

\* Array.prototype.sort((a, b) => b.count - a.count), a stable sort
sortByCountDesc(a) ==
    LET pos(i) == 1 + Cardinality({j \in 1..Len(a) :
                        \/ a[j].count > a[i].count
                        \/ a[j].count = a[i].count /\ j < i})
    IN  [p \in 1..Len(a) |-> a[CHOOSE i \in 1..Len(a) : pos(i) = p]]

\* the properties a plain object {} inherits from Object.prototype: a read of
\* counts[k] for one of these names finds the inherited value, not undefined
ObjectPrototypeKeys == {
    <<"c","o","n","s","t","r","u","c","t","o","r">>,
    <<"t","o","S","t","r","i","n","g">>,
    <<"v","a","l","u","e","O","f">>,
    <<"h","a","s","O","w","n","P","r","o","p","e","r","t","y">>,
    <<"_","_","p","r","o","t","o","_","_">> }

\* the setter of Object.prototype.__proto__ ignores a value that is no
\* object: the assignment creates no own property
ProtoKey == <<"_","_","p","r","o","t","o","_","_">>

\* a JavaScript number as far as calculateStats meets it: a count, or NaN
Num(n) == [nan |-> FALSE, value |-> n]
NaN == [nan |-> TRUE, value |-> 0]

\* x > 0 on such a number: false for NaN
GreaterThanZero(x) == ~x.nan /\ x.value > 0

\* calculateStats: the value it hands to setStats.  counts starts with the
\* registered keys at 0 (line 309); an item of another category adds its key
\* when it first occurs (Object.keys keeps insertion order for such names;
\* categories that read as array indices are not among the modelled ones).
\* For a category that names an inherited property the test of line 311
\* succeeds on the inherited value and counts[k]++ stores NaN.
calculateStats(data) ==
    LET IsNewKey(i) == /\ data[i].category \notin Range(CATEGORIES)
                       /\ data[i].category # ProtoKey
                       /\ \A j \in 1..(i - 1) : data[j].category # data[i].category
        added == SelectSeq([i \in 1..Len(data) |-> i], IsNewKey)
        keys == CATEGORIES \o [k \in 1..Len(added) |-> data[added[k]].category]
        counts(c) == IF c \in ObjectPrototypeKeys THEN NaN
                     ELSE Num(Cardinality({i \in 1..Len(data) : data[i].category = c}))
        Positive(x) == GreaterThanZero(x.count)
        kept == SelectSeq([k \in 1..Len(keys) |->
                          [category |-> keys[k], count |-> counts(keys[k])]], Positive)
        statsArray == [k \in 1..Len(kept) |->
                          [category |-> kept[k].category, count |-> kept[k].count.value]]
    IN  sortByCountDesc(statsArray)

All == <<"a","l","l">>

\* a filter that shows every row whatever the selector
filteredBatchData_unfiltered(data, selector) == data

\* the useMemo of lines 383-386
filteredBatchData(data, selector) ==
    LET Matches(item) == item.category = selector
    IN  IF selector = All THEN data ELSE SelectSeq(data, Matches)

\* Array.prototype.join
join(ss, sep) ==
    concat([i \in 1..Len(ss) |-> IF i = 1 THEN ss[i] ELSE sep \o ss[i]])

\* s.replace(/"/g, '""')
doubleQuotes(s) ==
    concat([i \in 1..Len(s) |-> IF s[i] = "\"" THEN <<"\"", "\"">> ELSE <<s[i]>>])

headers == << <<"O","r","i","g","i","n","a","l"," ","C","o","m","m","e","n","t">>,
              <<"C","a","t","e","g","o","r","y">>,
              <<"R","e","p","l","y"," ","S","u","g","g","e","s","t","i","o","n">> >>

\* the template literal of line 376
csvRow(row) ==
    <<"\"">> \o doubleQuotes(row.original_text) \o <<"\"", ",", "\"">>
    \o row.category \o <<"\"", ",", "\"">> \o doubleQuotes(row.reply) \o <<"\"">>

\* the rows handleDownloadCSV writes, lines 375-377
exportedRows(data) == [i \in 1..Len(data) |-> csvRow(data[i])]

\* csvContent, lines 373-378
csvContent(data) ==
    join(<<join(headers, <<",">>)>> \o exportedRows(data), <<"\n">>)

---------------------------------------------------------------------------
(* The App component *)

NoAlert == ""
NoDownload == <<>>

Event(op, outcome) == [op |-> op, outcome |-> outcome]

\* what the user types into the textarea: nothing, white space only, a comment
Inputs == {<<>>, <<" ", "\n">>, <<"h","i">>}

Remove(s, i) == SubSeq(s, 1, i - 1) \o SubSeq(s, i + 1, Len(s))

\* the state after the first render, lines 275-288
Init ==
    /\ activeTab = "single"
    /\ singleInput = <<>>
    /\ singleResult = Null
    /\ singleLoading = FALSE
    /\ batchData = <<>>
    /\ batchLoading = FALSE
    /\ filterCategory = All
    /\ stats = <<>>
    /\ pickerOpen = FALSE
    /\ singleTasks = <<>>
    /\ batchTasks = <<>>
    /\ alerted = NoAlert
    /\ downloaded = NoDownload
    /\ lastEvent = Event("render", "")

\* no alert, no download: what every step that raises none leaves behind
Quiet == alerted' = NoAlert /\ downloaded' = NoDownload

\* the page takes the user's clicks and keys: the file chooser is modal
PageActive == ~pickerOpen

\* the tab buttons, lines 406-417
setActiveTab(tab) ==
    /\ PageActive
    /\ activeTab' = tab
    /\ lastEvent' = Event("setState", "")
    /\ Quiet
    /\ UNCHANGED <<singleInput, singleResult, singleLoading, batchData, batchLoading,
                   filterCategory, stats, pickerOpen, singleTasks, batchTasks>>

\* the textarea's onChange, line 439
setSingleInput(text) ==
    /\ PageActive
    /\ activeTab = "single"
    /\ singleInput' = text
    /\ lastEvent' = Event("setState", "")
    /\ Quiet
    /\ UNCHANGED <<activeTab, singleResult, singleLoading, batchData, batchLoading,
                   filterCategory, stats, pickerOpen, singleTasks, batchTasks>>

\* the single pane's button is rendered and enabled, lines 427, 442-445
SingleButtonEnabled ==
    activeTab = "single" /\ ~(singleLoading \/ singleInput = <<>>)

\* a submission that forgets the trim of line 292
IgnoredInput_untrimmed(input) == input = <<>>

\* line 292
IgnoredInput(input) == trim(input) = <<>>

\* a submission that leaves the held result on display
startSingleAnalyze_keepsResult ==
    /\ singleLoading' = TRUE
    /\ singleResult' = singleResult
    /\ singleTasks' = Append(singleTasks,
                        [sent |-> <<singleInput>>, prior |-> singleResult])

\* lines 293-296: the suspended call keeps what it sent and the state its
\* closure was created with
startSingleAnalyze ==
    /\ singleLoading' = TRUE
    /\ singleResult' = Null
    /\ singleTasks' = Append(singleTasks,
                        [sent |-> <<singleInput>>, prior |-> singleResult])

\* handleSingleAnalyze up to its await, lines 291-296
handleSingleAnalyze ==
    /\ PageActive
    /\ SingleButtonEnabled
    /\ Len(singleTasks) < MaxTasks
    /\ IF IgnoredInput(singleInput)
       THEN /\ lastEvent' = Event("handleSingleAnalyze", "ignored")
            /\ UNCHANGED <<singleLoading, singleResult, singleTasks>>
       ELSE /\ startSingleAnalyze
            /\ lastEvent' = Event("handleSingleAnalyze", "submitted")
    /\ Quiet
    /\ UNCHANGED <<activeTab, singleInput, batchData, batchLoading, filterCategory,
                   stats, pickerOpen, batchTasks>>

\* a completion that forgets the finally block of lines 302-304
resumeSingleAnalyze_leavesBusy(i, resp) ==
    LET results == processCommentWithGemini(resp)
    IN  /\ singleTasks' = Remove(singleTasks, i)
        /\ IF results.threw
           THEN /\ alerted' = "Failed to analyze. Please ensure you have a valid API Key."
                /\ UNCHANGED singleResult
           ELSE /\ alerted' = NoAlert
                /\ singleResult' = IF Len(results.value) > 0 THEN results.value[1]
                                   ELSE singleResult
        /\ downloaded' = NoDownload
        /\ lastEvent' = Event("handleSingleAnalyze", resp.kind)
        /\ UNCHANGED <<activeTab, singleInput, singleLoading, batchData, batchLoading,
                       filterCategory, stats, pickerOpen, batchTasks>>

\* handleSingleAnalyze from its await on, lines 296-304
resumeSingleAnalyze(i, resp) ==
    LET results == processCommentWithGemini(resp)
    IN  /\ singleTasks' = Remove(singleTasks, i)
        /\ IF results.threw
           THEN /\ alerted' = "Failed to analyze. Please ensure you have a valid API Key."
                /\ UNCHANGED singleResult
           ELSE /\ alerted' = NoAlert
                /\ singleResult' = IF Len(results.value) > 0 THEN results.value[1]
                                   ELSE singleResult
        /\ singleLoading' = FALSE
        /\ downloaded' = NoDownload
        /\ lastEvent' = Event("handleSingleAnalyze", resp.kind)
        /\ UNCHANGED <<activeTab, singleInput, batchData, batchLoading, filterCategory,
                       stats, pickerOpen, batchTasks>>

\* buttons that stay enabled while a submission is outstanding
BatchButtonsEnabled_whileBusy == activeTab = "batch"

\* the batch pane's two buttons are rendered and enabled, lines 484, 505, 522
BatchButtonsEnabled == activeTab = "batch" /\ ~batchLoading

\* a suspended batch submission: the handler's locals and the state its
\* closure was created with
Task(handler, stage, file, cs, sent) ==
    [handler |-> handler, stage |-> stage, file |-> file, comments |-> cs,
     sent |-> sent, priorData |-> batchData, priorStats |-> stats]

\* a sample load that leaves the selector where it is
handleBatchLoadSample_keepsFilter ==
    /\ PageActive
    /\ BatchButtonsEnabled
    /\ Len(batchTasks) < MaxTasks
    /\ batchLoading' = TRUE
    /\ batchTasks' = Append(batchTasks, Task("sample", "await", <<>>, SAMPLE_COMMENTS, SAMPLE_COMMENTS))
    /\ lastEvent' = Event("handleBatchLoadSample", "submitted")
    /\ Quiet
    /\ UNCHANGED <<activeTab, singleInput, singleResult, singleLoading, batchData,
                   filterCategory, stats, pickerOpen, singleTasks>>

\* handleBatchLoadSample up to its await, lines 322-326
handleBatchLoadSample ==
    /\ PageActive
    /\ BatchButtonsEnabled
    /\ Len(batchTasks) < MaxTasks
    /\ batchLoading' = TRUE
    /\ filterCategory' = All
    /\ batchTasks' = Append(batchTasks, Task("sample", "await", <<>>, SAMPLE_COMMENTS, SAMPLE_COMMENTS))
    /\ lastEvent' = Event("handleBatchLoadSample", "submitted")
    /\ Quiet
    /\ UNCHANGED <<activeTab, singleInput, singleResult, singleLoading, batchData,
                   stats, pickerOpen, singleTasks>>

\* the upload button: fileInputRef.current?.click(), line 504
openFilePicker ==
    /\ PageActive
    /\ BatchButtonsEnabled
    /\ pickerOpen' = TRUE
    /\ lastEvent' = Event("setState", "")
    /\ Quiet
    /\ UNCHANGED <<appState, singleTasks, batchTasks>>

\* the chooser closes with no file: handleFileUpload's early return, line 338
cancelFileUpload ==
    /\ pickerOpen
    /\ pickerOpen' = FALSE
    /\ lastEvent' = Event("handleFileUpload", "no file")
    /\ Quiet
    /\ UNCHANGED <<appState, singleTasks, batchTasks>>

\* handleFileUpload with a file, lines 336-366
handleFileUpload(file) ==
    /\ pickerOpen
    /\ Len(batchTasks) < MaxTasks
    /\ pickerOpen' = FALSE
    /\ batchLoading' = TRUE
    /\ filterCategory' = All
    /\ batchTasks' = Append(batchTasks, Task("upload", "read", file, <<>>, <<>>))
    /\ lastEvent' = Event("handleFileUpload", "submitted")
    /\ Quiet
    /\ UNCHANGED <<activeTab, singleInput, singleResult, singleLoading, batchData,
                   stats, singleTasks>>

\* reader.onload up to its await, lines 343-355
readerOnload(i) ==
    /\ batchTasks[i].stage = "read"
    /\ \E text \in {readAsText(batchTasks[i].file)} :
       \E cs \in {comments(text)}, limited \in {limitedComments(text)} :
          batchTasks' = [batchTasks EXCEPT
              ![i].stage = "await", ![i].comments = cs, ![i].sent = limited]
    /\ lastEvent' = Event("reader.onload", "submitted")
    /\ Quiet
    /\ UNCHANGED <<appState, pickerOpen, singleTasks>>

\* the read fails: the reader has no onerror, so nothing of the app runs
readerOnerror(i) ==
    /\ batchTasks[i].stage = "read"
    /\ batchTasks' = Remove(batchTasks, i)
    /\ lastEvent' = Event("reader.onerror", "")
    /\ Quiet
    /\ UNCHANGED <<appState, pickerOpen, singleTasks>>

\* the two batch handlers with each other's message
FailureAlert_swapped(handler) ==
    IF handler = "sample" THEN "Error processing CSV data with AI."
    ELSE "Failed to load batch."

\* the alerts of lines 330 and 359
FailureAlert(handler) ==
    IF handler = "sample" THEN "Failed to load batch."
    ELSE "Error processing CSV data with AI."

HandlerName(handler) ==
    IF handler = "sample" THEN "handleBatchLoadSample" ELSE "handleFileUpload"

\* a catch block that also empties the table
catchBatch_clearing(handler) ==
    /\ alerted' = FailureAlert(handler)
    /\ batchData' = <<>>
    /\ stats' = <<>>

\* the catch blocks of lines 329-331 and 358-360
catchBatch(handler) ==
    /\ alerted' = FailureAlert(handler)
    /\ UNCHANGED <<batchData, stats>>

\* a batch completion that clears one busy flag shared by both panes
resumeBatch_sharedFlag(i, resp) ==
    LET results == processCommentWithGemini(resp)
    IN  /\ batchTasks[i].stage = "await"
        /\ batchTasks' = Remove(batchTasks, i)
        /\ IF results.threw
           THEN catchBatch(batchTasks[i].handler)
           ELSE /\ alerted' = NoAlert
                /\ batchData' = results.value
                /\ stats' = calculateStats(results.value)
        /\ batchLoading' = FALSE
        /\ singleLoading' = FALSE
        /\ downloaded' = NoDownload
        /\ lastEvent' = Event(HandlerName(batchTasks[i].handler), resp.kind)
        /\ UNCHANGED <<activeTab, singleInput, singleResult,
                       filterCategory, pickerOpen, singleTasks>>

\* a batch submission from its await on: lines 326-333 and 355-362
resumeBatch(i, resp) ==
    LET results == processCommentWithGemini(resp)
    IN  /\ batchTasks[i].stage = "await"
        /\ batchTasks' = Remove(batchTasks, i)
        /\ IF results.threw
           THEN catchBatch(batchTasks[i].handler)
           ELSE /\ alerted' = NoAlert
                /\ batchData' = results.value
                /\ stats' = calculateStats(results.value)
        /\ batchLoading' = FALSE
        /\ downloaded' = NoDownload
        /\ lastEvent' = Event(HandlerName(batchTasks[i].handler), resp.kind)
        /\ UNCHANGED <<activeTab, singleInput, singleResult, singleLoading,
                       filterCategory, pickerOpen, singleTasks>>

\* the selector and the export button are rendered, lines 484, 547
ResultControlsShown == activeTab = "batch" /\ Len(batchData) > 0

\* the select's onChange, line 551
setFilterCategory(selector) ==
    /\ PageActive
    /\ ResultControlsShown
    /\ filterCategory' = selector
    /\ lastEvent' = Event("setState", "")
    /\ Quiet
    /\ UNCHANGED <<activeTab, singleInput, singleResult, singleLoading, batchData,
                   batchLoading, stats, pickerOpen, singleTasks, batchTasks>>

\* handleDownloadCSV, lines 369-381
handleDownloadCSV ==
    /\ PageActive
    /\ ResultControlsShown
    /\ IF Len(batchData) = 0
       THEN downloaded' = NoDownload /\ lastEvent' = Event("handleDownloadCSV", "ignored")
       ELSE /\ downloaded' = csvContent(batchData)
            /\ lastEvent' = Event("handleDownloadCSV", "downloaded")
    /\ alerted' = NoAlert
    /\ UNCHANGED <<appState, pickerOpen, singleTasks, batchTasks>>

Selectors == {All} \cup Range(CATEGORIES)

SingleResponds == \E i \in 1..Len(singleTasks), resp \in Responses : resumeSingleAnalyze(i, resp)

BatchResponds == \E i \in 1..Len(batchTasks), resp \in Responses : resumeBatch(i, resp)

ReadSucceeds == \E i \in 1..Len(batchTasks) : readerOnload(i)

ReadFails == \E i \in 1..Len(batchTasks) : readerOnerror(i)

Next ==
    \/ \E tab \in {"single", "batch"} : setActiveTab(tab)
    \/ \E text \in Inputs : setSingleInput(text)
    \/ handleSingleAnalyze
    \/ SingleResponds
    \/ handleBatchLoadSample
    \/ openFilePicker
    \/ cancelFileUpload
    \/ \E file \in Files : handleFileUpload(file)
    \/ ReadSucceeds
    \/ ReadFails
    \/ BatchResponds
    \/ \E selector \in Selectors : setFilterCategory(selector)
    \/ handleDownloadCSV

Spec == Init /\ [][Next]_vars

\* The ingestion of an upload on its own: a file of IngestFiles has just been
\* picked in the first render's state, and the submission runs to its end.
IngestFiles == SmallFiles \cup LongFiles

IngestInit ==
    /\ activeTab = "batch"
    /\ singleInput = <<>>
    /\ singleResult = Null
    /\ singleLoading = FALSE
    /\ batchData = <<>>
    /\ batchLoading = TRUE
    /\ filterCategory = All
    /\ stats = <<>>
    /\ pickerOpen = FALSE
    /\ singleTasks = <<>>
    /\ \E file \in IngestFiles : batchTasks = <<Task("upload", "read", file, <<>>, <<>>)>>
    /\ alerted = NoAlert
    /\ downloaded = NoDownload
    /\ lastEvent = Event("handleFileUpload", "submitted")

IngestNext == ReadSucceeds \/ ReadFails \/ BatchResponds

IngestSpec == IngestInit /\ [][IngestNext]_vars

\* The results table on its own: the sample batch has just been submitted in
\* the first render's state, the service answers with an array of up to
\* MaxTableLen results, and the table is then filtered and exported.  Next to
\* Results the answers hold a result of a registered category that precedes
\* the other in CATEGORIES, a second result of the category of the first, and
\* one whose category names a property every object inherits.
TableResults == Results \cup {
    [original_text |-> <<"c">>, category |-> CATEGORIES[1], reply |-> <<",">>],
    [original_text |-> <<"f">>, category |-> CATEGORIES[5], reply |-> <<"g">>],
    [original_text |-> <<"d">>, category |-> <<"c","o","n","s","t","r","u","c","t","o","r">>, reply |-> <<"e">>] }

TableResponses ==
    {[kind |-> k, body |-> <<>>] : k \in {"rejected", "no text", "not json"}}
    \cup {[kind |-> "array", body |-> a] :
            a \in UNION {[1..n -> TableResults] : n \in 0..MaxTableLen}}

TableInit ==
    /\ activeTab = "batch"
    /\ singleInput = <<>>
    /\ singleResult = Null
    /\ singleLoading = FALSE
    /\ batchData = <<>>
    /\ batchLoading = TRUE
    /\ filterCategory = All
    /\ stats = <<>>
    /\ pickerOpen = FALSE
    /\ singleTasks = <<>>
    /\ batchTasks = <<Task("sample", "await", <<>>, SAMPLE_COMMENTS, SAMPLE_COMMENTS)>>
    /\ alerted = NoAlert
    /\ downloaded = NoDownload
    /\ lastEvent = Event("handleBatchLoadSample", "submitted")

TableResponds == \E i \in 1..Len(batchTasks), resp \in TableResponses : resumeBatch(i, resp)

TableNext ==
    \/ TableResponds
    \/ \E selector \in Selectors : setFilterCategory(selector)
    \/ handleDownloadCSV

TableSpec == TableInit /\ [][TableNext]_vars

\* every outstanding file read and every outstanding request of the service
\* completes, one way or the other
FairSpec ==
    /\ Spec
    /\ WF_vars(SingleResponds)
    /\ WF_vars(BatchResponds)
    /\ WF_vars(ReadSucceeds \/ ReadFails)

---------------------------------------------------------------------------
(* What the properties below speak of *)

\* the outcomes with which a request of the service fails: the call rejects,
\* or the response text is no JSON
FailureOutcomes == {"rejected", "not json"}

BatchHandlers == {"handleBatchLoadSample", "handleFileUpload"}

\* the last step was the end of a batch submission whose request failed
BatchFailed == lastEvent.op \in BatchHandlers /\ lastEvent.outcome \in FailureOutcomes

\* the last step was the end of a single-comment submission whose request failed
SingleFailed == lastEvent.op = "handleSingleAnalyze" /\ lastEvent.outcome \in FailureOutcomes

\* the batch requests of the service that are outstanding
BatchRequests == {i \in 1..Len(batchTasks) : batchTasks[i].stage = "await"}

---------------------------------------------------------------------------
(* C1 *)

\* C1: when a batch submission (sample load or file upload) ends with a failed
\* classification request, batchData and stats are what they were when the
\* submission started.
C1_BatchFailureKeepsResults ==
    [][BatchFailed' =>
          \E i \in BatchRequests :
              /\ batchData' = batchTasks[i].priorData
              /\ stats' = batchTasks[i].priorStats]_vars

\* a failed upload has ended with results of an earlier submission still held
C1_Witness ==
    /\ BatchFailed
    /\ lastEvent.op = "handleFileUpload"
    /\ Len(batchData) > 0
    /\ Len(stats) > 0
    /\ ~batchLoading

---------------------------------------------------------------------------
(* C2 *)

\* C2, as the specification states it: when a single-comment submission ends
\* with a failed request, the pane is idle again and singleResult is what it
\* was when the submission started, a result held from an earlier
\* submission included.
C2_SingleFailureRestoresResult ==
    [][SingleFailed' =>
          /\ singleLoading' = FALSE
          /\ \E i \in 1..Len(singleTasks) : singleResult' = singleTasks[i].prior]_vars

\* C2, amended: when a single-comment submission ends with a failed request,
\* the pane is idle again and holds no result: the result held when the
\* submission started was cleared by the submission and is not restored.
C2_SingleFailureLeavesNoResult ==
    SingleFailed => singleLoading = FALSE /\ singleResult = Null

\* a single-comment submission has failed, and the pane is idle and empty
C2_Witness ==
    /\ SingleFailed
    /\ alerted = "Failed to analyze. Please ensure you have a valid API Key."
    /\ singleResult = Null
    /\ singleTasks = <<>>

---------------------------------------------------------------------------
(* C3 *)

\* C3: a response with no text is a failure like a rejected call or a text
\* that is no JSON: the submission it ends raises the failure alert and
\* replaces none of batchData, stats and singleResult.
C3_EmptyBodyIsFailure ==
    [][lastEvent'.outcome = "no text" =>
          /\ alerted' # NoAlert
          /\ UNCHANGED <<batchData, stats, singleResult>>]_vars

---------------------------------------------------------------------------
(* C4 *)

\* C4: a busy flag that is set is cleared again, whatever the outcome, given
\* that every outstanding file read and every outstanding request completes.
C4_BusyFlagsCleared ==
    /\ singleLoading ~> ~singleLoading
    /\ batchLoading ~> ~batchLoading

---------------------------------------------------------------------------
(* C5 *)

\* C5: at most one batch request (of a sample load or of an upload) and at
\* most one single-comment request is outstanding at any time.
C5_OneRequestPerPane ==
    /\ Cardinality(BatchRequests) <= 1
    /\ Len(singleTasks) <= 1

\* both panes have a request outstanding at once, and both are busy
C5_Witness ==
    /\ Cardinality(BatchRequests) = 1
    /\ Len(singleTasks) = 1
    /\ singleLoading
    /\ batchLoading

---------------------------------------------------------------------------
(* C6 *)

\* C6: the exported text is the header row followed by one row for each
\* result of filter(batchData, filterCategory), in order, and by no other.
C6_ExportIsFiltered ==
    lastEvent = Event("handleDownloadCSV", "downloaded") =>
        downloaded = csvContent(filteredBatchData(batchData, filterCategory))

---------------------------------------------------------------------------
(* C7 *)

\* C7: the list handed to processCommentWithGemini is never empty, whatever
\* the uploaded file, the single comment or the sample.
C7_NoEmptyBatchSent ==
    /\ \A i \in BatchRequests : Len(batchTasks[i].sent) > 0
    /\ \A i \in 1..Len(singleTasks) : Len(singleTasks[i].sent) > 0

---------------------------------------------------------------------------
(* C8 *)

\* the lines of a file that hold a character other than white space
NonBlankLines(file) ==
    LET Inked(line) == \E k \in 1..Len(line) : line[k] \notin WhiteSpace
    IN  SelectSeq([i \in 1..Len(file) |-> file[i].content], Inked)

\* the line holds the token, in whatever case
Mentions(line, token) ==
    \E k \in 0..(Len(line) - Len(token)) :
        \A j \in 1..Len(token) : toLowerCase(<<line[k + j]>>) = <<token[j]>>

LooksLikeHeader(line) ==
    \/ Mentions(line, <<"c","o","m","m","e","n","t">>)
    \/ Mentions(line, <<"t","e","x","t">>)

\* the candidate list the specification describes
Candidates(file) ==
    LET nb == NonBlankLines(file)
    IN  IF nb # <<>> /\ LooksLikeHeader(nb[1]) THEN Tail(nb) ELSE nb

\* C8: the candidates of an upload are the non-blank lines of the file in
\* their order, less the first of them if and only if it holds "comment" or
\* "text" in whatever case; no more than one line is removed as a header.
C8_CandidatesAreNonBlankLines ==
    \A i \in BatchRequests :
        batchTasks[i].handler = "upload" =>
            LET nb == NonBlankLines(batchTasks[i].file)
            IN  /\ batchTasks[i].comments = Candidates(batchTasks[i].file)
                /\ Len(nb) - Len(batchTasks[i].comments) <= 1
                /\ (nb # <<>> /\ ~LooksLikeHeader(nb[1]) => batchTasks[i].comments = nb)

\* a header was removed from an upload whose second line reads like a header
\* too, and that second line is kept
C8_Witness ==
    \E i \in BatchRequests :
        /\ batchTasks[i].handler = "upload"
        /\ Len(NonBlankLines(batchTasks[i].file)) = 2
        /\ Len(batchTasks[i].comments) = 1
        /\ LooksLikeHeader(batchTasks[i].comments[1])

---------------------------------------------------------------------------
(* C9 *)

\* C9: an upload forwards at most 200 comments; of more than 200 candidates
\* it forwards the first 200 in order, and raises no alert in doing so.
C9_AtMostTwoHundredForwarded ==
    \A i \in BatchRequests :
        batchTasks[i].handler = "upload" =>
            LET cs == Candidates(batchTasks[i].file)
            IN  /\ Len(batchTasks[i].sent) <= 200
                /\ (Len(cs) > 200 => batchTasks[i].sent = SubSeq(cs, 1, 200))
                /\ (Len(cs) <= 200 => batchTasks[i].sent = cs)
                /\ (lastEvent.op = "reader.onload" => alerted = NoAlert)

\* an upload of more than 200 candidates was cut to 200, behind a header
C9_Witness ==
    \E i \in BatchRequests :
        /\ batchTasks[i].handler = "upload"
        /\ Len(Candidates(batchTasks[i].file)) > 200
        /\ Len(NonBlankLines(batchTasks[i].file)) > Len(Candidates(batchTasks[i].file))
        /\ Len(batchTasks[i].sent) = 200
        /\ lastEvent.op = "reader.onload"

---------------------------------------------------------------------------
(* C10 *)

AllWhiteSpace(text) == \A k \in 1..Len(text) : text[k] \in WhiteSpace

\* C10: handleSingleAnalyze on an empty or white-space-only input sends no
\* request, raises no alert and changes neither the single pane's busy flag
\* and result nor any batch state.
C10_BlankInputIsNoOp ==
    [][(/\ lastEvent'.op = "handleSingleAnalyze"
        /\ lastEvent'.outcome \in {"ignored", "submitted"}
        /\ AllWhiteSpace(singleInput)) =>
          /\ alerted' = NoAlert
          /\ UNCHANGED <<singleLoading, singleResult, singleTasks, batchData, stats,
                         batchLoading, filterCategory, batchTasks>>]_vars

\* the button was pressed on white space only, and nothing is outstanding
C10_Witness ==
    /\ lastEvent = Event("handleSingleAnalyze", "ignored")
    /\ singleInput # <<>>
    /\ AllWhiteSpace(singleInput)
    /\ ~singleLoading
    /\ singleTasks = <<>>


---------------------------------------------------------------------------
(* C11 *)

\* the outcomes with which a batch submission stores what the client returned
StoredOutcomes == {"array", "no text"}

BatchStored == lastEvent.op \in BatchHandlers /\ lastEvent.outcome \in StoredOutcomes

Occurrences(data, c) == Cardinality({i \in 1..Len(data) : data[i].category = c})

\* st is an aggregate of data: one entry for each category that occurs in
\* data, its count the number of occurrences, none with count 0, the counts
\* never increasing along st
IsAggregateOf(st, data) ==
    /\ \A i \in 1..Len(data) :
          Cardinality({k \in 1..Len(st) : st[k].category = data[i].category}) = 1
    /\ \A k \in 1..Len(st) :
          st[k].count > 0 /\ st[k].count = Occurrences(data, st[k].category)
    /\ \A k \in 1..(Len(st) - 1) : st[k].count >= st[k + 1].count

\* C11: what calculateStats makes of a result sequence is an aggregate of it:
\* exactly one entry per category occurring in the results, registered or
\* not, with its number of occurrences, no entry of count 0, ordered by
\* non-increasing count.
C11_StatsAgreeWithAggregate ==
    BatchStored => IsAggregateOf(calculateStats(batchData), batchData)

---------------------------------------------------------------------------
(* C12 *)

\* the k-th smallest member of a set of indices
Nth(S, k) == CHOOSE i \in S : Cardinality({j \in S : j <= i}) = k

\* r holds exactly the items of data whose category is the selector, in the
\* order they have in data
IsSelectionOf(r, data, selector) ==
    LET matching == {i \in 1..Len(data) : data[i].category = selector}
    IN  /\ Len(r) = Cardinality(matching)
        /\ \A k \in 1..Len(r) : r[k] = data[Nth(matching, k)]

FilterAgrees ==
    LET shown == filteredBatchData(batchData, filterCategory)
    IN  IF filterCategory = All THEN shown = batchData
        ELSE IsSelectionOf(shown, batchData, filterCategory)

\* C12: the filtered view is batchData itself under "all", and under any
\* other selector exactly the results of that category in their original
\* order; choosing a selector changes nothing but filterCategory.
C12_FilterSelectsByCategory ==
    /\ [](FilterAgrees)
    /\ [][filterCategory' # filterCategory /\ lastEvent'.op = "setState"
            => UNCHANGED <<activeTab, singleInput, singleResult, singleLoading,
                           batchData, batchLoading, stats>>]_vars

\* a selector other than "all" is chosen over a table whose first and third
\* rows are of that category and whose second is not
C12_Witness ==
    /\ lastEvent = Event("setState", "")
    /\ filterCategory # All
    /\ Len(batchData) = 3
    /\ batchData[1].category = filterCategory
    /\ batchData[2].category # filterCategory
    /\ batchData[3].category = filterCategory
    /\ batchData[1] # batchData[3]

---------------------------------------------------------------------------
(* C13 *)

\* A reader of quoted CSV (RFC 4180): records are separated by line feeds and
\* fields by commas that stand outside quotes; a field that starts with a
\* double quote ends with its closing quote, "" inside it standing for one
\* quote; a double quote anywhere else makes the text malformed.
IsQuote(c) == c = "\""

\* the characters of s at the positions lo..hi
Between(s, lo, hi) == [k \in 1..(hi - lo + 1) |-> s[lo + k - 1]]

\* the value of one field given as written, ok telling whether it is well formed
parseField(raw) ==
    LET n == Len(raw)
        inner == Between(raw, 2, n - 1)
        rank(j) == Cardinality({k \in 1..j : IsQuote(inner[k])})
        Paired(j) == IsQuote(inner[j]) /\ rank(j) % 2 = 1
                        => j < Len(inner) /\ IsQuote(inner[j + 1])
        Kept(j) == ~(IsQuote(inner[j]) /\ rank(j) % 2 = 0)
        kept == SelectSeq([j \in 1..Len(inner) |-> j], Kept)
    IN  IF n > 0 /\ IsQuote(raw[1])
        THEN [ok |-> n >= 2 /\ IsQuote(raw[n]) /\ \A j \in 1..Len(inner) : Paired(j),
              value |-> [k \in 1..Len(kept) |-> inner[kept[k]]]]
        ELSE [ok |-> \A j \in 1..n : ~IsQuote(raw[j]), value |-> raw]

parseCSV(text) ==
    LET n == Len(text)
        Outside(i) == Cardinality({j \in 1..(i - 1) : IsQuote(text[j])}) % 2 = 0
        \* where the pieces of lo..hi end that the separator sep cuts it into
        Ends(lo, hi, sep) ==
            LET IsEnd(i) == i = hi + 1 \/ (text[i] = sep /\ Outside(i))
            IN  SelectSeq([k \in 1..(hi - lo + 2) |-> lo + k - 1], IsEnd)
        First(ends, lo, k) == IF k = 1 THEN lo ELSE ends[k - 1] + 1
        recordEnds == Ends(1, n, "\n")
        fieldsOf(lo, hi) ==
            LET fieldEnds == Ends(lo, hi, ",")
            IN  [k \in 1..Len(fieldEnds) |->
                    parseField(Between(text, First(fieldEnds, lo, k), fieldEnds[k] - 1))]
        records == [r \in 1..Len(recordEnds) |->
                       fieldsOf(First(recordEnds, 1, r), recordEnds[r] - 1)]
    IN  [ok |-> \A r \in 1..Len(records) : \A k \in 1..Len(records[r]) : records[r][k].ok,
         rows |-> [r \in 1..Len(records) |->
                      [k \in 1..Len(records[r]) |-> records[r][k].value]]]

\* C13: reading the exported text back gives the header row and then, row by
\* row, the original_text, category and reply of every exported result,
\* also when a value holds double quotes or commas.
C13_ExportRoundTrips ==
    lastEvent = Event("handleDownloadCSV", "downloaded") =>
        LET parsed == parseCSV(downloaded)
        IN  /\ parsed.ok
            /\ Len(parsed.rows) = 1 + Len(batchData)
            /\ parsed.rows[1] = headers
            /\ \A i \in 1..Len(batchData) :
                  parsed.rows[i + 1] = <<batchData[i].original_text,
                                         batchData[i].category, batchData[i].reply>>


---------------------------------------------------------------------------
(* C14 *)

\* C14: when a batch submission ends in success, batchData has as many
\* entries as comments were forwarded, and its i-th entry is the result of the
\* i-th forwarded comment.
C14_ResultsMatchForwarded ==
    [][\A i \in 1..Len(batchTasks) :
          /\ batchTasks[i].stage = "await"
          /\ batchTasks' = Remove(batchTasks, i)
          /\ BatchStored'
          => /\ Len(batchData') = Len(batchTasks[i].sent)
             /\ \A k \in 1..Len(batchData') :
                   batchData'[k].original_text = batchTasks[i].sent[k]]_vars

---------------------------------------------------------------------------
(* C15 *)

\* the alert each handler raises in its catch block
AlertOf(op) ==
    CASE op = "handleSingleAnalyze"   -> "Failed to analyze. Please ensure you have a valid API Key."
      [] op = "handleBatchLoadSample" -> "Failed to load batch."
      [] op = "handleFileUpload"      -> "Error processing CSV data with AI."
      [] OTHER                        -> NoAlert

\* C15: the step in which a failed request is caught raises the one alert of
\* the handler that issued it; every other step, the success of a request and
\* an ignored blank submission among them, raises none.
C15_OneAlertPerFailure ==
    [][IF lastEvent'.outcome \in FailureOutcomes
       THEN alerted' = AlertOf(lastEvent'.op) /\ alerted' # NoAlert
       ELSE alerted' = NoAlert]_vars

\* a failed sample load has raised its alert
C15_Witness ==
    /\ lastEvent.op = "handleBatchLoadSample"
    /\ lastEvent.outcome \in FailureOutcomes
    /\ alerted = "Failed to load batch."
    /\ BatchRequests = {}

---------------------------------------------------------------------------
(* C16 *)

\* the outcomes with which a request ends
Completions == FailureOutcomes \cup StoredOutcomes

SingleCompleted == lastEvent.op = "handleSingleAnalyze" /\ lastEvent.outcome \in Completions

BatchCompleted == lastEvent.op \in BatchHandlers /\ lastEvent.outcome \in Completions

\* C16: the completion of a single-comment request changes none of
\* batchData, stats, filterCategory, batchLoading, and the completion of a
\* batch request changes neither singleResult nor singleLoading, whatever is
\* outstanding in the other pane.
C16_PanesAreIndependent ==
    [][/\ SingleCompleted' =>
            UNCHANGED <<batchData, stats, filterCategory, batchLoading, batchTasks>>
       /\ BatchCompleted' =>
            UNCHANGED <<singleResult, singleLoading, singleTasks>>]_vars

\* a batch request has completed while a single-comment request is still
\* outstanding
C16_Witness ==
    /\ BatchCompleted
    /\ ~batchLoading
    /\ singleLoading
    /\ Len(singleTasks) = 1

---------------------------------------------------------------------------
(* C17 *)

RECURSIVE SumOfCounts(_)
SumOfCounts(st) == IF st = <<>> THEN 0 ELSE st[1].count + SumOfCounts(Tail(st))

\* C17: in every state stats is the aggregate of batchData, and so its counts
\* add up to the number of held results.
C17_StatsDescribeHeldResults ==
    /\ IsAggregateOf(stats, batchData)
    /\ SumOfCounts(stats) = Len(batchData)

---------------------------------------------------------------------------
(* C18 *)

\* C18: while the single pane is busy it holds no result; a result appears
\* only at the successful completion of the request, and a completion whose
\* response has no text sets none and raises no alert.
C18_BusyMeansNoResult ==
    /\ [](singleLoading => singleResult = Null)
    /\ [][/\ singleResult' # singleResult /\ singleResult' # Null
              => lastEvent' = Event("handleSingleAnalyze", "array") /\ ~singleLoading'
          /\ lastEvent' = Event("handleSingleAnalyze", "no text")
              => singleResult' = Null /\ alerted' = NoAlert]_vars

\* a submission is outstanding that cleared the result held before it
C18_Witness ==
    /\ singleLoading
    /\ singleResult = Null
    /\ Len(singleTasks) = 1
    /\ singleTasks[1].prior # Null

---------------------------------------------------------------------------
(* C19 *)

BatchSubmitted ==
    /\ lastEvent.op \in BatchHandlers
    /\ lastEvent.outcome = "submitted"

\* C19 as stated: a batch submission sets the selector to "all" when it
\* starts, its completion leaves the selector alone, the selector is "all"
\* after a failed batch submission, and it is always "all" or a registered
\* category.
C19_SelectorAllAfterFailure ==
    /\ [](filterCategory \in Selectors)
    /\ [][/\ BatchSubmitted' => filterCategory' = All
          /\ BatchCompleted' => filterCategory' = filterCategory
          /\ BatchFailed' => filterCategory' = All]_vars

\* C19, amended: a batch submission sets the selector to "all" when it
\* starts, its completion leaves the selector alone, and the selector is
\* always "all" or a registered category.
C19_SelectorResetAtStart ==
    /\ [](filterCategory \in Selectors)
    /\ [][/\ BatchSubmitted' => filterCategory' = All
          /\ BatchCompleted' => filterCategory' = filterCategory]_vars

\* a batch submission has failed and the selector, chosen while the request
\* was outstanding, is a category
C19_Witness ==
    /\ BatchFailed
    /\ filterCategory # All
    /\ ~batchLoading

====
